---------------------------- MODULE Spec2Model ----------------------------
(***************************************************************************)
(* A model of three parts of the Audacious sources:                        *)
(*   - the playlist file dispatch of libaudcore/playlist-files.cc (Spec),  *)
(*   - the plugin header of libaudcore/plugin.h: header versions and       *)
(*     messages (SpecPlugins), the output plugin calls (SpecOutput),       *)
(*   - the skin loader of the classic GUI, skin.c (SpecSkin), the steps of *)
(*     its threads around the skin lock (SpecSkinLock), and its readers of *)
(*     colors and region masks (SpecSkinFiles).                            *)
(* Each specification moves the variables of its part only.                *)
(* Strings are sequences of one-character strings, so that the code's      *)
(* string functions (extension extraction, atoi) are computed, not assumed.*)
(***************************************************************************)
EXTENDS Integers, Sequences, FiniteSets, TLC

VARIABLES
    plugins,        \* the playlist plugin registry, in registration order
    pl_op,          \* the playlist entry point that just ran ("none": idle)
    pl_filename,    \* its filename argument
    pl_seen,        \* the plugins its callback was called on, in order
    pl_calls,       \* the vfs_fopen / load / save calls it made, in order
    pl_found,       \* PlaylistData.plugin_found at its end
    pl_ret,         \* its return value
    pl_error,       \* the text passed to aud_ui_show_error, or "none"
    pg_loaded,      \* the plugin headers that were accepted and loaded
    pg_last,        \* the last plugin operation and its result
    out_open,       \* the output plugin has an open PCM stream
    out_paused,     \* the stream is paused
    out_unpaused,   \* pause(false) ended a pause of this stream
    out_format,     \* the format given to open_audio
    out_volume,     \* the volume set on the plugin
    out_buffered,   \* bytes written to the plugin and not yet heard
    out_time,       \* the plugin's time counter
    out_last,       \* the last OutputPlugin function called by the core
    bmp_active_skin,    \* "NULL", or "skin" once skin_new made the skin
    skin_path,          \* bmp_active_skin->path ("NULL" when unset)
    skin_properties,    \* bmp_active_skin->properties (the layout hints)
    skin_current_num,   \* the static load counter
    skin_last,          \* the last skin entry point called and its result
    skin_lock_owner,    \* the thread holding skin->lock ("NULL": free)
    skin_thread,        \* per thread: the skin function it is in, and where
    color_last,         \* the last skin_load_color call and the color it gave
    mask_last           \* the last skin_create_transparent_mask call, its mask

pl_vars ==
    <<plugins, pl_op, pl_filename, pl_seen, pl_calls, pl_found, pl_ret, pl_error>>

pg_vars == <<pg_loaded, pg_last>>

out_vars ==
    <<out_open, out_paused, out_unpaused, out_format, out_volume, out_buffered,
      out_time, out_last>>

skin_vars ==
    <<bmp_active_skin, skin_path, skin_properties, skin_current_num, skin_last>>

lock_vars == <<skin_lock_owner, skin_thread>>

file_vars == <<color_last, mask_last>>

vars == <<pl_vars, pg_vars, out_vars, skin_vars, lock_vars, file_vars>>

(* What the steps of one part leave alone. *)
PlaylistOnly == UNCHANGED <<file_vars, pg_vars, out_vars, skin_vars, lock_vars>>
PluginsOnly == UNCHANGED <<file_vars, pl_vars, out_vars, skin_vars, lock_vars>>
OutputOnly == UNCHANGED <<file_vars, pl_vars, pg_vars, skin_vars, lock_vars>>
SkinOnly == UNCHANGED <<pl_vars, pg_vars, out_vars, lock_vars, file_vars>>
SkinThreadsOnly == UNCHANGED <<pl_vars, pg_vars, out_vars, file_vars>>
SkinFilesOnly == UNCHANGED <<pl_vars, pg_vars, out_vars, skin_vars, lock_vars>>

-----------------------------------------------------------------------------
(* Bounds *)

MaxPlugins == 3
MaxLoaded == 2
MaxBuffer == 2
MaxTime == 2
MaxSkinNum == 2
MaxColorLen == 7
MaxPolygons == 2
MaxPoints == 2
MaxCoords == 4

-----------------------------------------------------------------------------
(* Small helpers *)

Max(S) == CHOOSE x \in S : \A y \in S : y <= x

Min(S) == CHOOSE x \in S : \A y \in S : x <= y

NoExt == <<>>

-----------------------------------------------------------------------------
(* The playlist plugin registry (plugin.h: PlaylistPlugin) *)

ExtM == <<"m">>
ExtP == <<"p">>

(* A registered playlist plugin: the extensions it names, whether          *)
(* aud_plugin_get_header returns its header, and whether the header        *)
(* provides load and save.  A plugin without a header provides neither.    *)
PlaylistPlugin ==
    { p \in [ exts : {{ExtM}, {ExtM, ExtP}}, header : BOOLEAN,
              load : BOOLEAN, save : BOOLEAN ] :
          ~p.header => (~p.load /\ ~p.save) }

(* The filenames handed to the entry points. *)
Filenames ==
    { <<"a", ".", "m">>, <<"a", ".", "p">>, <<"a", ".", "x">>,
      <<"a">>, <<"d", ".", "m", "/", "a">> }

(* uri_get_extension: the text after the last '.' of the last path         *)
(* component; fails when that component has no '.' or nothing follows it.  *)
uri_get_extension(filename) ==
    LET slashes == { i \in 1..Len(filename) : filename[i] = "/" }
        from    == IF slashes = {} THEN 0 ELSE Max(slashes)
        dots    == { i \in (from + 1)..Len(filename) : filename[i] = "." }
    IN  IF dots = {} \/ Max(dots) = Len(filename)
        THEN [ok |-> FALSE, ext |-> NoExt]
        ELSE [ok |-> TRUE, ext |-> SubSeq(filename, Max(dots) + 1, Len(filename))]

(* PlaylistData as the entry points construct it: plugin_found and success *)
(* start FALSE.  seen lists the plugins the callback ran on and calls what  *)
(* the callbacks did with the file.                                        *)
PlaylistData ==
    [plugin_found |-> FALSE, success |-> FALSE, seen |-> <<>>, calls |-> <<>>]

Call(i, fn, ok) == [plugin |-> i, fn |-> fn, ok |-> ok]

(* plugin_found_cb with the wrong return value: the iteration goes on. *)
plugin_found_cb_goes_on(i, data) ==
    [data |-> [data EXCEPT !.plugin_found = TRUE], more |-> TRUE]

(* plugin_found_cb: remembers the plugin and stops the iteration. *)
plugin_found_cb(i, data) ==
    [data |-> [data EXCEPT !.plugin_found = TRUE], more |-> FALSE]

(* playlist_load_cb returning TRUE after the load, successful or not. *)
playlist_load_cb_never_stops(i, data, opened, loaded) ==
    LET pp == plugins[i] IN
    IF ~pp.header \/ ~pp.load
    THEN [data |-> data, more |-> TRUE]
    ELSE IF ~opened
    THEN [data |-> [data EXCEPT !.plugin_found = TRUE,
                                !.calls = Append(@, Call(i, "fopen", FALSE))],
          more |-> FALSE]
    ELSE [data |-> [data EXCEPT !.plugin_found = TRUE,
                                !.success = loaded,
                                !.calls = @ \o <<Call(i, "fopen", TRUE),
                                                 Call(i, "load", loaded)>>],
          more |-> TRUE]

(* playlist_load_cb setting plugin_found only once the file is open. *)
playlist_load_cb_found_late(i, data, opened, loaded) ==
    LET pp == plugins[i] IN
    IF ~pp.header \/ ~pp.load
    THEN [data |-> data, more |-> TRUE]
    ELSE IF ~opened
    THEN [data |-> [data EXCEPT !.calls = Append(@, Call(i, "fopen", FALSE))],
          more |-> FALSE]
    ELSE [data |-> [data EXCEPT !.plugin_found = TRUE,
                                !.success = loaded,
                                !.calls = @ \o <<Call(i, "fopen", TRUE),
                                                 Call(i, "load", loaded)>>],
          more |-> ~loaded]

(* playlist_load_cb asking for the next plugin when the file cannot be     *)
(* opened.                                                                 *)
playlist_load_cb_skips_unopened(i, data, opened, loaded) ==
    LET pp == plugins[i] IN
    IF ~pp.header \/ ~pp.load
    THEN [data |-> data, more |-> TRUE]
    ELSE IF ~opened
    THEN [data |-> [data EXCEPT !.plugin_found = TRUE,
                                !.calls = Append(@, Call(i, "fopen", FALSE))],
          more |-> TRUE]
    ELSE [data |-> [data EXCEPT !.plugin_found = TRUE,
                                !.success = loaded,
                                !.calls = @ \o <<Call(i, "fopen", TRUE),
                                                 Call(i, "load", loaded)>>],
          more |-> ~loaded]

(* playlist_load_cb, with the answers of vfs_fopen and of the plugin's     *)
(* load as inputs.  more = TRUE asks for the next plugin.                  *)
playlist_load_cb(i, data, opened, loaded) ==
    LET pp == plugins[i] IN
    IF ~pp.header \/ ~pp.load
    THEN [data |-> data, more |-> TRUE]
    ELSE IF ~opened
    THEN [data |-> [data EXCEPT !.plugin_found = TRUE,
                                !.calls = Append(@, Call(i, "fopen", FALSE))],
          more |-> FALSE]
    ELSE [data |-> [data EXCEPT !.plugin_found = TRUE,
                                !.success = loaded,
                                !.calls = @ \o <<Call(i, "fopen", TRUE),
                                                 Call(i, "load", loaded)>>],
          more |-> ~loaded]

(* playlist_save_cb asking for the next plugin when the save failed. *)
playlist_save_cb_retries(i, data, opened, saved) ==
    LET pp == plugins[i] IN
    IF ~pp.header \/ ~pp.save
    THEN [data |-> data, more |-> TRUE]
    ELSE IF ~opened
    THEN [data |-> [data EXCEPT !.plugin_found = TRUE,
                                !.calls = Append(@, Call(i, "fopen", FALSE))],
          more |-> FALSE]
    ELSE [data |-> [data EXCEPT !.plugin_found = TRUE,
                                !.success = saved,
                                !.calls = @ \o <<Call(i, "fopen", TRUE),
                                                 Call(i, "save", saved)>>],
          more |-> ~saved]

(* playlist_save_cb setting plugin_found only once the file is open. *)
playlist_save_cb_found_late(i, data, opened, saved) ==
    LET pp == plugins[i] IN
    IF ~pp.header \/ ~pp.save
    THEN [data |-> data, more |-> TRUE]
    ELSE IF ~opened
    THEN [data |-> [data EXCEPT !.calls = Append(@, Call(i, "fopen", FALSE))],
          more |-> FALSE]
    ELSE [data |-> [data EXCEPT !.plugin_found = TRUE,
                                !.success = saved,
                                !.calls = @ \o <<Call(i, "fopen", TRUE),
                                                 Call(i, "save", saved)>>],
          more |-> FALSE]

(* playlist_save_cb asking for the next plugin after every save. *)
playlist_save_cb_goes_on(i, data, opened, saved) ==
    LET pp == plugins[i] IN
    IF ~pp.header \/ ~pp.save
    THEN [data |-> data, more |-> TRUE]
    ELSE IF ~opened
    THEN [data |-> [data EXCEPT !.plugin_found = TRUE,
                                !.calls = Append(@, Call(i, "fopen", FALSE))],
          more |-> FALSE]
    ELSE [data |-> [data EXCEPT !.plugin_found = TRUE,
                                !.success = saved,
                                !.calls = @ \o <<Call(i, "fopen", TRUE),
                                                 Call(i, "save", saved)>>],
          more |-> TRUE]

(* playlist_save_cb, likewise. *)
playlist_save_cb(i, data, opened, saved) ==
    LET pp == plugins[i] IN
    IF ~pp.header \/ ~pp.save
    THEN [data |-> data, more |-> TRUE]
    ELSE IF ~opened
    THEN [data |-> [data EXCEPT !.plugin_found = TRUE,
                                !.calls = Append(@, Call(i, "fopen", FALSE))],
          more |-> FALSE]
    ELSE [data |-> [data EXCEPT !.plugin_found = TRUE,
                                !.success = saved,
                                !.calls = @ \o <<Call(i, "fopen", TRUE),
                                                 Call(i, "save", saved)>>],
          more |-> FALSE]

Callback(func, i, data, opened, done) ==
    CASE func = "found" -> plugin_found_cb(i, data)
      [] func = "load"  -> playlist_load_cb(i, data, opened, done)
      [] func = "save"  -> playlist_save_cb(i, data, opened, done)

(* playlist_plugin_for_ext: calls func on each registered plugin naming    *)
(* ext, in registration order, until func asks to stop.  The result is the *)
(* set of final PlaylistData values, one per way the file system and the   *)
(* plugins can answer.                                                     *)
RECURSIVE playlist_plugin_for_ext(_, _, _, _)
playlist_plugin_for_ext(ext, func, i, data) ==
    IF i > Len(plugins) THEN {data}
    ELSE IF ext \notin plugins[i].exts
    THEN playlist_plugin_for_ext(ext, func, i + 1, data)
    ELSE UNION { LET d == [data EXCEPT !.seen = Append(@, i)]
                     r == Callback(func, i, d, a[1], a[2])
                 IN  IF r.more
                     THEN playlist_plugin_for_ext(ext, func, i + 1, r.data)
                     ELSE {r.data}
                 : a \in BOOLEAN \X BOOLEAN }

(* plugin_for_filename *)
plugin_for_filename(filename, func, data) ==
    LET e == uri_get_extension(filename) IN
    IF e.ok THEN playlist_plugin_for_ext(e.ext, func, 1, data) ELSE {data}

-----------------------------------------------------------------------------
(* Actions of the playlist part *)

(* A plugin is added to the registry; no entry point is running. *)
RegisterPlugin ==
    /\ pl_op = "none"
    /\ Len(plugins) < MaxPlugins
    /\ \E p \in PlaylistPlugin : plugins' = Append(plugins, p)
    /\ UNCHANGED <<pl_op, pl_filename, pl_seen, pl_calls, pl_found, pl_ret,
                   pl_error>>
    /\ PlaylistOnly

aud_filename_is_playlist ==
    /\ pl_op = "none"
    /\ \E filename \in Filenames :
        \E data \in plugin_for_filename(filename, "found", PlaylistData) :
            /\ pl_op' = "is_playlist"
            /\ pl_filename' = filename
            /\ pl_seen' = data.seen
            /\ pl_calls' = data.calls
            /\ pl_found' = data.plugin_found
            /\ pl_ret' = data.plugin_found
            /\ pl_error' = "none"
            /\ UNCHANGED plugins
    /\ PlaylistOnly

playlist_load ==
    /\ pl_op = "none"
    /\ \E filename \in Filenames :
        \E data \in plugin_for_filename(filename, "load", PlaylistData) :
            /\ pl_op' = "load"
            /\ pl_filename' = filename
            /\ pl_seen' = data.seen
            /\ pl_calls' = data.calls
            /\ pl_found' = data.plugin_found
            /\ pl_error' = IF ~data.plugin_found THEN "Cannot load" ELSE "none"
            /\ pl_ret' = data.success
            /\ UNCHANGED plugins
    /\ PlaylistOnly

aud_playlist_save ==
    /\ pl_op = "none"
    /\ \E filename \in Filenames :
        \E data \in plugin_for_filename(filename, "save", PlaylistData) :
            /\ pl_op' = "save"
            /\ pl_filename' = filename
            /\ pl_seen' = data.seen
            /\ pl_calls' = data.calls
            /\ pl_found' = data.plugin_found
            /\ pl_error' = IF ~data.plugin_found THEN "Cannot save" ELSE "none"
            /\ pl_ret' = data.success
            /\ UNCHANGED plugins
    /\ PlaylistOnly

(* The caller takes the result; the next entry point may be called. *)
pl_return ==
    /\ pl_op # "none"
    /\ pl_op' = "none"
    /\ pl_filename' = <<>>
    /\ pl_seen' = <<>>
    /\ pl_calls' = <<>>
    /\ pl_found' = FALSE
    /\ pl_ret' = FALSE
    /\ pl_error' = "none"
    /\ UNCHANGED plugins
    /\ PlaylistOnly

InitPlaylist ==
    /\ plugins = <<>>
    /\ pl_op = "none"
    /\ pl_filename = <<>>
    /\ pl_seen = <<>>
    /\ pl_calls = <<>>
    /\ pl_found = FALSE
    /\ pl_ret = FALSE
    /\ pl_error = "none"

NextPlaylist ==
    \/ RegisterPlugin
    \/ aud_filename_is_playlist
    \/ playlist_load
    \/ aud_playlist_save
    \/ pl_return

-----------------------------------------------------------------------------
(* The plugin header (plugin.h) *)

(* (int) 0x8EAC8DE2 *)
_AUD_PLUGIN_MAGIC == -1901294110

_AUD_PLUGIN_VERSION == 46

(* The minimum raised past the current version. *)
_AUD_PLUGIN_VERSION_MIN_ahead == _AUD_PLUGIN_VERSION + 1

_AUD_PLUGIN_VERSION_MIN == 46

PluginTypes ==
    { "PLUGIN_TYPE_TRANSPORT", "PLUGIN_TYPE_PLAYLIST", "PLUGIN_TYPE_OUTPUT",
      "PLUGIN_TYPE_EFFECT", "PLUGIN_TYPE_INPUT", "PLUGIN_TYPE_GENERAL",
      "PLUGIN_TYPE_VIS", "PLUGIN_TYPE_IFACE" }

(* class Plugin as its constructor builds it: magic and version are the    *)
(* header's values at compile time.  own_take_message tells whether the    *)
(* plugin's class overrides take_message.                                  *)
Plugin(type, own_take_message) ==
    [ magic |-> _AUD_PLUGIN_MAGIC, version |-> _AUD_PLUGIN_VERSION,
      type |-> type, own_take_message |-> own_take_message ]

(* The headers found in plugin files: built against this header, against   *)
(* an older or a newer one, or not a plugin header at all.                 *)
PluginHeaders ==
    [ magic : {_AUD_PLUGIN_MAGIC, 0},
      version : (_AUD_PLUGIN_VERSION_MIN - 1)..(_AUD_PLUGIN_VERSION + 1),
      type : PluginTypes, own_take_message : BOOLEAN ]

(* Plugin::take_message answering success. *)
Plugin_take_message_zero(code, size) == 0

(* Plugin::take_message, the default of every plugin class. *)
Plugin_take_message(code, size) == -1

MessageCodes == {"code-a", "code-b"}
MessageSizes == {0, 4}

(* What a take_message of the plugin's own may answer: -1 for a code it    *)
(* does not recognize, 0 for success, another code for an error.           *)
OwnAnswers == {-1, 0, 1}

(* The virtual call header->take_message (code, data, size). *)
take_message(header, code, size, own) ==
    IF header.own_take_message THEN own ELSE Plugin_take_message(code, size)

NoOp == [op |-> "none"]

(* The loader reads a header and loads the plugin if the header's magic    *)
(* and version are accepted.                                               *)
plugin_load ==
    /\ Cardinality(pg_loaded) < MaxLoaded
    /\ \E header \in PluginHeaders :
           LET accepted == /\ header.magic = _AUD_PLUGIN_MAGIC
                           /\ header.version >= _AUD_PLUGIN_VERSION_MIN
                           /\ header.version <= _AUD_PLUGIN_VERSION
           IN  /\ pg_loaded' = IF accepted THEN pg_loaded \cup {header}
                                            ELSE pg_loaded
               /\ pg_last' = [op |-> "load", header |-> header,
                              accepted |-> accepted]
    /\ PluginsOnly

(* aud_plugin_send_message to a loaded plugin. *)
aud_plugin_send_message ==
    /\ \E header \in pg_loaded, code \in MessageCodes, size \in MessageSizes,
          own \in OwnAnswers :
           /\ pg_last' = [op |-> "message", header |-> header, code |-> code,
                          size |-> size,
                          result |-> take_message(header, code, size, own)]
           /\ UNCHANGED pg_loaded
    /\ PluginsOnly

InitPlugins ==
    /\ pg_loaded = {}
    /\ pg_last = NoOp

NextPlugins ==
    \/ plugin_load
    \/ aud_plugin_send_message

-----------------------------------------------------------------------------
(* The output plugin as the core drives it (plugin.h: OutputPlugin) *)

Formats == {"FMT_FLOAT", "FMT_S16_NE"}
Volumes == {0, 100}

(* set_volume: changes the volume (0 to 100). *)
set_volume ==
    /\ \E volume \in Volumes :
           /\ out_volume' = volume
           /\ out_last' = [op |-> "set_volume", volume |-> volume]
    /\ UNCHANGED <<out_open, out_paused, out_unpaused, out_format,
                   out_buffered, out_time>>
    /\ OutputOnly

(* open_audio: begins playback of a PCM stream; TRUE on success. *)
open_audio ==
    /\ ~out_open
    /\ \E success \in BOOLEAN, format \in Formats :
           /\ out_open' = success
           /\ out_format' = IF success THEN format ELSE "none"
           /\ out_last' = [op |-> "open_audio", format |-> format,
                           ok |-> success]
    /\ out_paused' = FALSE
    /\ out_unpaused' = FALSE
    /\ UNCHANGED out_volume
    /\ out_buffered' = 0
    /\ out_time' = 0
    /\ OutputOnly

(* close_audio: ends playback; buffered data is discarded. *)
close_audio ==
    /\ out_open
    /\ out_open' = FALSE
    /\ out_paused' = FALSE
    /\ out_buffered' = 0
    /\ out_unpaused' = FALSE
    /\ out_format' = "none"
    /\ out_last' = [op |-> "close_audio"]
    /\ UNCHANGED <<out_time, out_volume>>
    /\ OutputOnly

(* buffer_free: how many bytes a following write_audio may pass. *)
buffer_free == MaxBuffer - out_buffered

(* write_audio with the pause test left out. *)
write_audio_any_time ==
    /\ out_open
    /\ \E size \in 1..buffer_free :
           /\ out_buffered' = out_buffered + size
           /\ out_last' = [op |-> "write_audio", size |-> size]
    /\ UNCHANGED <<out_open, out_paused, out_unpaused, out_format, out_volume,
                   out_time>>
    /\ OutputOnly

(* write_audio: buffers size bytes; not called while the stream is paused. *)
write_audio ==
    /\ out_open
    /\ ~out_paused
    /\ \E size \in 1..buffer_free :
           /\ out_buffered' = out_buffered + size
           /\ out_last' = [op |-> "write_audio", size |-> size]
    /\ UNCHANGED <<out_open, out_paused, out_unpaused, out_format, out_volume,
                   out_time>>
    /\ OutputOnly

(* drain: waits until all buffered data has been heard. *)
drain ==
    /\ out_open
    /\ ~out_paused
    /\ out_buffered' = 0
    /\ out_time' = IF out_time + out_buffered > MaxTime
                   THEN MaxTime ELSE out_time + out_buffered
    /\ out_last' = [op |-> "drain"]
    /\ UNCHANGED <<out_open, out_paused, out_unpaused, out_format, out_volume>>
    /\ OutputOnly

(* pause: pauses the stream if p, otherwise unpauses it. *)
pause ==
    /\ out_open
    /\ \E p \in BOOLEAN :
           /\ out_paused' = p
           /\ out_unpaused' = (out_unpaused \/ (out_paused /\ ~p))
           /\ out_last' = [op |-> "pause", pause |-> p]
    /\ UNCHANGED <<out_open, out_format, out_volume, out_buffered, out_time>>
    /\ OutputOnly

(* flush: discards buffered data and sets the time counter. *)
flush ==
    /\ out_open
    /\ \E time \in 0..MaxTime :
           /\ out_time' = time
           /\ out_last' = [op |-> "flush", time |-> time]
    /\ out_buffered' = 0
    /\ UNCHANGED <<out_open, out_paused, out_unpaused, out_format, out_volume>>
    /\ OutputOnly

InitOutput ==
    /\ out_open = FALSE
    /\ out_paused = FALSE
    /\ out_unpaused = FALSE
    /\ out_format = "none"
    /\ out_volume = 100
    /\ out_buffered = 0
    /\ out_time = 0
    /\ out_last = NoOp

NextOutputPlugin ==
    \/ set_volume
    \/ open_audio
    \/ close_audio
    \/ write_audio
    \/ drain
    \/ pause
    \/ flush

-----------------------------------------------------------------------------
(* The skin loader (skin.c) *)

NULL == "NULL"

BMP_DEFAULT_SKIN_PATH == "default-skin"

(* The paths a skin is asked to load from. *)
SkinPaths == {"skin-a", BMP_DEFAULT_SKIN_PATH}

(* The layout hints that have a built-in default: the member of            *)
(* SkinProperties, its key in the [skin] section, its default.             *)
SkinHints ==
    { [prop |-> "mainwin_vis_x", key |-> "mainwinVisX", default |-> 24],
      [prop |-> "mainwin_width", key |-> "mainwinWidth", default |-> 275],
      [prop |-> "mainwin_menurow_visible", key |-> "mainwinMenurowVisible",
       default |-> 1] }

PropNames == { h.prop : h \in SkinHints }
HintKeys == { h.key : h \in SkinHints }
HintOf(prop) == CHOOSE h \in SkinHints : h.prop = prop

(* The values a key may have in a hints file. *)
HintValues == { <<"3", "0">>, <<"-", "7", "x">> }

(* A skin.hints file: the keys of its [skin] section with their values. *)
HintFiles == UNION { [K -> HintValues] : K \in SUBSET HintKeys }

(* What is found at a path: nothing, a directory or an archive; whether    *)
(* the archive can be extracted; whether a skin.hints file is in it.       *)
SkinFiles ==
    { f \in [ exists : BOOLEAN, archive : BOOLEAN, extract : BOOLEAN,
              has_hints : BOOLEAN, hints : HintFiles ] :
          /\ ~f.exists => (~f.archive /\ ~f.has_hints)
          /\ ~f.archive => ~f.extract
          /\ (f.archive /\ ~f.extract) => ~f.has_hints
          /\ ~f.has_hints => f.hints = <<>> }

(* atoi: optional white space, an optional sign, then decimal digits up to *)
(* the first other character; 0 when there is no digit.                    *)
DigitValue(c) ==
    CASE c = "0" -> 0 [] c = "1" -> 1 [] c = "2" -> 2 [] c = "3" -> 3
      [] c = "4" -> 4 [] c = "5" -> 5 [] c = "6" -> 6 [] c = "7" -> 7
      [] c = "8" -> 8 [] c = "9" -> 9 [] OTHER -> -1

RECURSIVE atoi_digits(_, _, _)
atoi_digits(str, i, acc) ==
    IF i > Len(str) \/ DigitValue(str[i]) < 0 THEN acc
    ELSE atoi_digits(str, i + 1, acc * 10 + DigitValue(str[i]))

RECURSIVE atoi_from(_, _)
atoi_from(str, i) ==
    IF i > Len(str) THEN 0
    ELSE IF str[i] = " " THEN atoi_from(str, i + 1)
    ELSE IF str[i] = "-" THEN 0 - atoi_digits(str, i + 1, 0)
    ELSE IF str[i] = "+" THEN atoi_digits(str, i + 1, 0)
    ELSE atoi_digits(str, i, 0)

atoi(str) == atoi_from(str, 1)

(* read_ini_string: the value of the key, or nothing. *)
read_ini_string(file, key) ==
    IF key \in DOMAIN file.hints
    THEN [found |-> TRUE, value |-> file.hints[key]]
    ELSE [found |-> FALSE, value |-> <<>>]

(* memset(&properties, 0, sizeof(SkinProperties)) *)
ZeroProperties == [p \in PropNames |-> 0]

(* skin_parse_hints: returns at once when there is no skin.hints; else     *)
(* every property gets its default and then the key's value if present.    *)
skin_parse_hints(properties, file) ==
    IF ~file.has_hints THEN properties
    ELSE [p \in PropNames |->
            LET tmp == read_ini_string(file, HintOf(p).key)
            IN  IF tmp.found THEN atoi(tmp.value) ELSE HintOf(p).default]

(* A skin as the functions below pass it along. *)
SkinState(path, properties, num) ==
    [path |-> path, properties |-> properties, num |-> num]

(* skin_load_nolock leaving skin->path as it was. *)
skin_load_nolock_keeps_path(skin, path, force, file) ==
    IF path = NULL THEN [ret |-> FALSE, skin |-> skin]
    ELSE IF ~file.exists THEN [ret |-> FALSE, skin |-> skin]
    ELSE IF ~force /\ skin.path # NULL /\ skin.path = path
    THEN [ret |-> FALSE, skin |-> skin]
    ELSE LET s1 == [skin EXCEPT !.num = @ + 1]
         IN  IF ~file.archive
             THEN [ret |-> TRUE,
                   skin |-> [s1 EXCEPT !.properties = skin_parse_hints(@, file)]]
             ELSE IF ~file.extract THEN [ret |-> FALSE, skin |-> s1]
             ELSE [ret |-> TRUE,
                   skin |-> [s1 EXCEPT !.properties = skin_parse_hints(@, file)]]

(* skin_load_nolock; file is what the file system holds at path. *)
skin_load_nolock(skin, path, force, file) ==
    IF path = NULL THEN [ret |-> FALSE, skin |-> skin]
    ELSE IF ~file.exists THEN [ret |-> FALSE, skin |-> skin]
    ELSE IF ~force /\ skin.path # NULL /\ skin.path = path
    THEN [ret |-> FALSE, skin |-> skin]
    ELSE LET s1 == [skin EXCEPT !.num = @ + 1, !.path = path]
         IN  IF ~file.archive
             THEN [ret |-> TRUE,
                   skin |-> [s1 EXCEPT !.properties = skin_parse_hints(@, file)]]
             ELSE IF ~file.extract THEN [ret |-> FALSE, skin |-> s1]
             ELSE [ret |-> TRUE,
                   skin |-> [s1 EXCEPT !.properties = skin_parse_hints(@, file)]]

(* skin_load: refuses a NULL path, else loads under the skin's lock. *)
skin_load(skin, path, file) ==
    IF path = NULL THEN [ret |-> FALSE, skin |-> skin]
    ELSE skin_load_nolock(skin, path, FALSE, file)

(* The body of bmp_active_skin_load for a skin that exists: the properties *)
(* are zeroed, then the skin is loaded.  attempt is the record of the      *)
(* call.                                                                   *)
active_skin_load(skin, path, file) ==
    LET r == skin_load([skin EXCEPT !.properties = ZeroProperties], path, file)
    IN  [ret |-> r.ret, skin |-> r.skin,
         attempt |-> [path |-> path, ok |-> r.ret, file |-> file]]

CurrentSkin == SkinState(skin_path, skin_properties, skin_current_num)

SetSkin(skin) ==
    /\ skin_path' = skin.path
    /\ skin_properties' = skin.properties
    /\ skin_current_num' = skin.num

(* What a load of path may find: the file system is not looked at for a    *)
(* NULL path.                                                              *)
NoFile ==
    [exists |-> FALSE, archive |-> FALSE, extract |-> FALSE,
     has_hints |-> FALSE, hints |-> <<>>]

FilesAt(path) == IF path = NULL THEN {NoFile} ELSE SkinFiles

(* init_skins: makes the skin, loads the configured one and, if that       *)
(* fails, the default one.  It runs once, at startup, before any skin      *)
(* exists.                                                                 *)
init_skins ==
    /\ bmp_active_skin = NULL
    /\ \E path \in SkinPaths \cup {NULL} :
       \E file1 \in FilesAt(path) :
          LET new   == SkinState(NULL, ZeroProperties, skin_current_num)
              first == active_skin_load(new, path, file1)
          IN  /\ bmp_active_skin' = "skin"
              /\ IF first.ret
                 THEN /\ SetSkin(first.skin)
                      /\ skin_last' = [op |-> "init_skins", path |-> path,
                                       ret |-> TRUE,
                                       attempts |-> <<first.attempt>>]
                 ELSE \E file2 \in FilesAt(BMP_DEFAULT_SKIN_PATH) :
                      LET second == active_skin_load(first.skin,
                                        BMP_DEFAULT_SKIN_PATH, file2)
                      IN  /\ SetSkin(second.skin)
                          /\ skin_last' = [op |-> "init_skins", path |-> path,
                                           ret |-> second.ret,
                                           attempts |-> <<first.attempt,
                                                          second.attempt>>]
    /\ SkinOnly

(* bmp_active_skin_load *)
bmp_active_skin_load ==
    /\ skin_current_num < MaxSkinNum
    /\ \E path \in SkinPaths \cup {NULL} :
       \E file \in FilesAt(path) :
          IF bmp_active_skin = NULL
          THEN /\ skin_last' = [op |-> "bmp_active_skin_load", path |-> path,
                                ret |-> FALSE, attempts |-> <<>>]
               /\ UNCHANGED <<bmp_active_skin, skin_path, skin_properties,
                              skin_current_num>>
          ELSE LET r == active_skin_load(CurrentSkin, path, file)
               IN  /\ SetSkin(r.skin)
                   /\ skin_last' = [op |-> "bmp_active_skin_load",
                                    path |-> path, ret |-> r.ret,
                                    attempts |-> <<r.attempt>>]
                   /\ UNCHANGED bmp_active_skin
    /\ SkinOnly

(* bmp_active_skin_reload: bmp_active_skin_load of the skin's own path. *)
bmp_active_skin_reload ==
    /\ bmp_active_skin # NULL
    /\ skin_current_num < MaxSkinNum
    /\ \E file \in FilesAt(skin_path) :
          LET r == active_skin_load(CurrentSkin, skin_path, file)
          IN  /\ SetSkin(r.skin)
              /\ skin_last' = [op |-> "bmp_active_skin_reload",
                               path |-> skin_path, ret |-> r.ret,
                               attempts |-> <<r.attempt>>]
              /\ UNCHANGED bmp_active_skin
    /\ SkinOnly

(* skin_reload_forced: skin_load_nolock of the skin's own path, forced. *)
skin_reload_forced ==
    /\ bmp_active_skin # NULL
    /\ skin_current_num < MaxSkinNum
    /\ \E file \in FilesAt(skin_path) :
          LET r == skin_load_nolock(CurrentSkin, skin_path, TRUE, file)
          IN  /\ SetSkin(r.skin)
              /\ skin_last' = [op |-> "skin_reload_forced",
                               path |-> skin_path, ret |-> r.ret,
                               attempts |-> <<[path |-> skin_path,
                                               ok |-> r.ret, file |-> file]>>]
              /\ UNCHANGED bmp_active_skin
    /\ SkinOnly

InitSkin ==
    /\ bmp_active_skin = NULL
    /\ skin_path = NULL
    /\ skin_properties = ZeroProperties
    /\ skin_current_num = 0
    /\ skin_last = [op |-> "none", path |-> NULL, ret |-> FALSE,
                    attempts |-> <<>>]

NextSkin ==
    \/ init_skins
    \/ bmp_active_skin_load
    \/ bmp_active_skin_reload
    \/ skin_reload_forced

-----------------------------------------------------------------------------
(* The skin lock (skin.c: skin_lock, skin_unlock and their callers).       *)
(* The public skin functions are followed step by step in each thread: the *)
(* call, skin_lock, the body run under the lock, skin_unlock.  The body of *)
(* skin_load_nolock and of skin_free is one step.  The pixmaps and masks   *)
(* that skin_free releases are not part of the state.  The lock does not   *)
(* depend on what skin.hints says, so the skins loaded here have either no *)
(* skin.hints or one without keys.                                         *)

(* The threads that call into the skin code. *)
Threads == {"gui", "playback"}

(* A thread outside the skin functions. *)
IdleThread ==
    [fn |-> "none", pc |-> "idle", path |-> NULL, locks |-> 0, unlocks |-> 0]

(* A thread that has just entered fn and stands at pc. *)
EnterThread(fn, pc, path) ==
    [fn |-> fn, pc |-> pc, path |-> path, locks |-> 0, unlocks |-> 0]

(* What a load may find at a path here. *)
PlainFilesAt(path) == { f \in FilesAt(path) : f.hints = <<>> }

(* REQUIRE_LOCK (skin->lock): the calling thread holds the lock. *)
REQUIRE_LOCK(t) == skin_lock_owner = t

(* skin_new, as init_skins calls it: bmp_active_skin = skin_new ().  The    *)
(* new skin is zeroed and its lock is free.                                *)
skin_new ==
    /\ bmp_active_skin = NULL
    /\ bmp_active_skin' = "skin"
    /\ SetSkin(SkinState(NULL, ZeroProperties, skin_current_num))
    /\ skin_last' = [op |-> "skin_new", path |-> NULL, ret |-> TRUE,
                     attempts |-> <<>>]
    /\ UNCHANGED lock_vars
    /\ SkinThreadsOnly

(* skin_load is called: a NULL path is refused before the lock is taken. *)
skin_load_call(t) ==
    /\ bmp_active_skin # NULL
    /\ skin_thread[t].pc = "idle"
    /\ \E path \in SkinPaths \cup {NULL} :
           skin_thread' =
               [skin_thread EXCEPT ![t] =
                   IF path = NULL THEN EnterThread("skin_load", "idle", path)
                                  ELSE EnterThread("skin_load", "lock", path)]
    /\ UNCHANGED <<skin_vars, skin_lock_owner>>
    /\ SkinThreadsOnly

(* skin_reload_forced is called: it goes for the lock at once. *)
skin_reload_forced_call(t) ==
    /\ bmp_active_skin # NULL
    /\ skin_thread[t].pc = "idle"
    /\ skin_thread' =
           [skin_thread EXCEPT ![t] = EnterThread("skin_reload_forced", "lock", NULL)]
    /\ UNCHANGED <<skin_vars, skin_lock_owner>>
    /\ SkinThreadsOnly

(* skin_reload is called: it goes to skin_load_nolock at once. *)
skin_reload_call(t) ==
    /\ bmp_active_skin # NULL
    /\ skin_thread[t].pc = "idle"
    /\ skin_thread' =
           [skin_thread EXCEPT ![t] = EnterThread("skin_reload", "nolock", NULL)]
    /\ UNCHANGED <<skin_vars, skin_lock_owner>>
    /\ SkinThreadsOnly

(* skin_free is called. *)
skin_free_call(t) ==
    /\ bmp_active_skin # NULL
    /\ skin_thread[t].pc = "idle"
    /\ skin_thread' =
           [skin_thread EXCEPT ![t] = EnterThread("skin_free", "lock", NULL)]
    /\ UNCHANGED <<skin_vars, skin_lock_owner>>
    /\ SkinThreadsOnly

(* skin_lock: g_mutex_lock waits until the lock is free, then takes it. *)
skin_lock(t) ==
    /\ skin_thread[t].pc = "lock"
    /\ skin_lock_owner = NULL
    /\ skin_lock_owner' = t
    /\ skin_thread' =
           [skin_thread EXCEPT ![t].locks = @ + 1,
                               ![t].pc = IF skin_thread[t].fn = "skin_free"
                                         THEN "free" ELSE "nolock"]
    /\ UNCHANGED skin_vars
    /\ SkinThreadsOnly

(* The call of skin_load_nolock: by skin_load with its path argument and   *)
(* force = FALSE, by skin_reload_forced and skin_reload with skin->path    *)
(* and force = TRUE.  When the caller does not hold the lock while another *)
(* thread does, the two bodies can overlap, and the skin may be left with  *)
(* the path or the properties of either.                                   *)
skin_load_nolock_call(t) ==
    /\ skin_thread[t].pc = "nolock"
    /\ skin_current_num < MaxSkinNum
    /\ LET th    == skin_thread[t]
           path  == IF th.fn = "skin_load" THEN th.path ELSE skin_path
           force == th.fn # "skin_load"
           races == ~REQUIRE_LOCK(t) /\ skin_lock_owner # NULL
       IN  \E file \in PlainFilesAt(path) :
           LET r == skin_load_nolock(CurrentSkin, path, force, file)
               outcomes ==
                   IF races
                   THEN { r.skin, [r.skin EXCEPT !.path = skin_path],
                          [r.skin EXCEPT !.properties = skin_properties] }
                   ELSE { r.skin }
           IN  /\ \E skin \in outcomes : SetSkin(skin)
               /\ skin_last' = [op |-> th.fn, path |-> path, ret |-> r.ret,
                                attempts |-> <<[path |-> path, ok |-> r.ret,
                                                file |-> file]>>]
               /\ skin_thread' =
                      [skin_thread EXCEPT ![t].path = NULL,
                                          ![t].pc = IF th.fn = "skin_reload"
                                                    THEN "idle" ELSE "unlock"]
    /\ UNCHANGED <<bmp_active_skin, skin_lock_owner>>
    /\ SkinThreadsOnly

(* The body of skin_free between skin_lock and skin_unlock. *)
skin_free_body(t) ==
    /\ skin_thread[t].pc = "free"
    /\ skin_thread' = [skin_thread EXCEPT ![t].pc = "unlock"]
    /\ UNCHANGED <<skin_vars, skin_lock_owner>>
    /\ SkinThreadsOnly

(* skin_unlock: g_mutex_unlock; the function returns after it. *)
skin_unlock(t) ==
    /\ skin_thread[t].pc = "unlock"
    /\ skin_lock_owner' = NULL
    /\ skin_thread' = [skin_thread EXCEPT ![t].unlocks = @ + 1,
                                          ![t].pc = "idle"]
    /\ UNCHANGED skin_vars
    /\ SkinThreadsOnly

InitSkinLock ==
    /\ skin_lock_owner = NULL
    /\ skin_thread = [t \in Threads |-> IdleThread]

NextSkinLock ==
    \/ skin_new
    \/ \E t \in Threads : skin_load_call(t)
    \/ \E t \in Threads : skin_reload_forced_call(t)
    \/ \E t \in Threads : skin_reload_call(t)
    \/ \E t \in Threads : skin_free_call(t)
    \/ \E t \in Threads : skin_lock(t)
    \/ \E t \in Threads : skin_load_nolock_call(t)
    \/ \E t \in Threads : skin_free_body(t)
    \/ \E t \in Threads : skin_unlock(t)

-----------------------------------------------------------------------------
(* Colors of the skin (skin.c: hex_chars_to_int, skin_load_color) *)

isspace(c) == c = " "

(* g_strstrip: the string without its leading and trailing white space. *)
g_strstrip(str) ==
    LET kept == { i \in 1..Len(str) : ~isspace(str[i]) }
    IN  IF kept = {} THEN <<>> ELSE SubSeq(str, Min(kept), Max(kept))

HexDigitValue(c) ==
    CASE c \in {"a", "A"} -> 10 [] c \in {"b", "B"} -> 11
      [] c \in {"c", "C"} -> 12 [] c \in {"d", "D"} -> 13
      [] c \in {"e", "E"} -> 14 [] c \in {"f", "F"} -> 15
      [] OTHER -> DigitValue(c)

(* strtol (str, NULL, 16): optional white space, an optional sign, then    *)
(* hexadecimal digits up to the first other character; 0 when there is no  *)
(* digit.  (A "0x" prefix counts only before a digit, which needs a third  *)
(* character; the strings here have two.)                                  *)
RECURSIVE strtol_digits(_, _, _)
strtol_digits(str, i, acc) ==
    IF i > Len(str) \/ HexDigitValue(str[i]) < 0 THEN acc
    ELSE strtol_digits(str, i + 1, acc * 16 + HexDigitValue(str[i]))

RECURSIVE strtol_from(_, _)
strtol_from(str, i) ==
    IF i > Len(str) THEN 0
    ELSE IF isspace(str[i]) THEN strtol_from(str, i + 1)
    ELSE IF str[i] = "-" THEN 0 - strtol_digits(str, i + 1, 0)
    ELSE IF str[i] = "+" THEN strtol_digits(str, i + 1, 0)
    ELSE strtol_digits(str, i, 0)

strtol(str) == strtol_from(str, 1)

CLAMP(x, low, high) == IF x > high THEN high ELSE IF x < low THEN low ELSE x

(* hex_chars_to_int: CLAMP (strtol (str, NULL, 16), 0, 0xFF) << 8 *)
hex_chars_to_int(hi, lo) == CLAMP(strtol(<<hi, lo>>), 0, 255) * 256

(* g_new0 (GdkColor, 1) *)
GdkColor(red, green, blue) == [red |-> red, green |-> green, blue |-> blue]

(* A GdkColor pointer that is NULL: told apart from every color, whose     *)
(* channels are not negative.                                              *)
NullColor == GdkColor(-1, -1, -1)

(* The characters of a color value: two hexadecimal digits and one that is *)
(* none.                                                                   *)
ColorChars == {"1", "f", "-"}

(* The values of a color key: up to MaxColorLen characters, after an       *)
(* optional '#', bare or with white space before and after.                *)
ColorValues ==
    { pad \o hash \o body \o pad :
          pad \in {<<>>, <<" ">>}, hash \in {<<>>, <<"#">>},
          body \in UNION { [1..n -> ColorChars] : n \in 0..MaxColorLen } }

(* A char pointer that is NULL: told apart from every string, whose        *)
(* elements are single characters.                                         *)
NullString == <<NULL>>

(* The default_hex arguments: none, "#2499ff" as for the normal text       *)
(* color, and a short one.                                                 *)
DefaultHexes ==
    { NullString, <<"#", "2", "4", "9", "9", "f", "f">>, <<"f", "1">> }

ColorKey == "normal"

(* What find_file_recursively and the file give: no file, a file without   *)
(* the key, a file with a value for the key.                               *)
ColorFiles ==
    { [exists |-> FALSE, hints |-> <<>>], [exists |-> TRUE, hints |-> <<>>] }
        \cup { [exists |-> TRUE, hints |-> [k \in {ColorKey} |-> v]] :
                   v \in ColorValues }

(* skin_load_color giving the first pairs to red and green whatever the    *)
(* length.                                                                 *)
skin_load_color_from_red(file, key, default_hex) ==
    LET tmp   == IF file.exists THEN read_ini_string(file, key)
                 ELSE [found |-> FALSE, value |-> <<>>]
        value == IF tmp.found THEN tmp.value ELSE default_hex
    IN  IF value = NullString THEN NullColor
        ELSE LET stripped == g_strstrip(value)
                 ptr == IF stripped # <<>> /\ stripped[1] = "#"
                        THEN Tail(stripped) ELSE stripped
                 len == Len(ptr)
             IN  GdkColor(IF len >= 2 THEN hex_chars_to_int(ptr[1], ptr[2]) ELSE 0,
                          IF len >= 4 THEN hex_chars_to_int(ptr[3], ptr[4]) ELSE 0,
                          IF len >= 6 THEN hex_chars_to_int(ptr[5], ptr[6]) ELSE 0)

(* skin_load_color: the value of the key if the file is found and has it,  *)
(* else default_hex; NULL without a value.  ptr moves on by two characters *)
(* after red and after green only if they were read.                       *)
skin_load_color(file, key, default_hex) ==
    LET tmp   == IF file.exists THEN read_ini_string(file, key)
                 ELSE [found |-> FALSE, value |-> <<>>]
        value == IF tmp.found THEN tmp.value ELSE default_hex
    IN  IF value = NullString THEN NullColor
        ELSE LET stripped == g_strstrip(value)
                 ptr0 == IF stripped # <<>> /\ stripped[1] = "#"
                         THEN Tail(stripped) ELSE stripped
                 len  == Len(ptr0)
                 ptr1 == IF len >= 6 THEN SubSeq(ptr0, 3, Len(ptr0)) ELSE ptr0
                 ptr2 == IF len >= 4 THEN SubSeq(ptr1, 3, Len(ptr1)) ELSE ptr1
             IN  GdkColor(IF len >= 6 THEN hex_chars_to_int(ptr0[1], ptr0[2]) ELSE 0,
                          IF len >= 4 THEN hex_chars_to_int(ptr1[1], ptr1[2]) ELSE 0,
                          IF len >= 2 THEN hex_chars_to_int(ptr2[1], ptr2[2]) ELSE 0)

NoColor == [op |-> "none"]

NoMask == [op |-> "none"]

(* A call of skin_load_color. *)
skin_load_color_call ==
    /\ color_last = NoColor
    /\ mask_last = NoMask
    /\ \E file \in ColorFiles, default_hex \in DefaultHexes :
           color_last' = [op |-> "skin_load_color", file |-> file,
                          default_hex |-> default_hex,
                          color |-> skin_load_color(file, ColorKey, default_hex)]
    /\ UNCHANGED mask_last
    /\ SkinFilesOnly

(* The caller takes the color. *)
color_return ==
    /\ color_last # NoColor
    /\ color_last' = NoColor
    /\ UNCHANGED mask_last
    /\ SkinFilesOnly

(* Masks of the skin (skin.c: create_default_mask,                         *)
(* skin_create_transparent_mask).  A mask is kept as what was drawn on it: *)
(* whether the whole rectangle was set, and the polygons set after the     *)
(* bitmap was cleared.                                                     *)
GdkBitmap(width, height, rectangle, polygons) ==
    [width |-> width, height |-> height, rectangle |-> rectangle,
     polygons |-> polygons]

(* A GdkBitmap pointer that is NULL. *)
NullMask == GdkBitmap(-1, -1, FALSE, <<>>)

(* create_default_mask: a bitmap with the whole rectangle set. *)
create_default_mask(w, h) == GdkBitmap(w, h, TRUE, <<>>)

(* The NumPoints and PointList arrays of a region file. *)
NumPointsArrays == UNION { [1..n -> 0..MaxPoints] : n \in 0..MaxPolygons }
PointListArrays == UNION { [1..n -> {0, 9}] : n \in 0..MaxCoords }

(* What is found for the mask: no path, no region file under the path, or  *)
(* a file whose section has some of the two keys.                          *)
RegionFiles ==
    { [path |-> NULL, exists |-> FALSE, arrays |-> <<>>],
      [path |-> "skin-a", exists |-> FALSE, arrays |-> <<>>],
      [path |-> "skin-a", exists |-> TRUE, arrays |-> <<>>] }
        \cup { [path |-> "skin-a", exists |-> TRUE,
                arrays |-> [k \in {"NumPoints"} |-> num]] :
                   num \in NumPointsArrays }
        \cup { [path |-> "skin-a", exists |-> TRUE,
                arrays |-> [k \in {"PointList"} |-> point]] :
                   point \in PointListArrays }
        \cup { [path |-> "skin-a", exists |-> TRUE,
                arrays |-> [k \in {"NumPoints", "PointList"} |->
                               IF k = "NumPoints" THEN num ELSE point]] :
                   num \in NumPointsArrays, point \in PointListArrays }

(* read_ini_array: the integers of the key, or nothing. *)
read_ini_array(file, key) ==
    IF key \in DOMAIN file.arrays
    THEN [found |-> TRUE, value |-> file.arrays[key]]
    ELSE [found |-> FALSE, value |-> <<>>]

(* The loop over NumPoints: entry i takes its points from PointList at     *)
(* offset j if that many are left, and is skipped if not.  st holds j, the *)
(* polygons drawn and created_mask.                                        *)
RECURSIVE draw_polygons(_, _, _, _)
draw_polygons(num, point, i, st) ==
    IF i > Len(num) THEN st
    ELSE IF Len(point) - st.j >= num[i] * 2
    THEN LET gpoints == [k \in 1..num[i] |->
                            [x |-> point[st.j + 2 * k - 1],
                             y |-> point[st.j + 2 * k]]]
         IN  draw_polygons(num, point, i + 1,
                 [j |-> st.j + num[i] * 2,
                  polygons |-> Append(st.polygons, gpoints),
                  created_mask |-> TRUE])
    ELSE draw_polygons(num, point, i + 1, st)

(* skin_create_transparent_mask *)
skin_create_transparent_mask(file, width, height) ==
    IF file.path = NULL \/ ~file.exists
    THEN create_default_mask(width, height)
    ELSE LET num   == read_ini_array(file, "NumPoints")
             point == read_ini_array(file, "PointList")
         IN  IF ~num.found THEN NullMask
             ELSE IF ~point.found THEN NullMask
             ELSE LET st == draw_polygons(num.value, point.value, 1,
                                [j |-> 0, polygons |-> <<>>,
                                 created_mask |-> FALSE])
                  IN  GdkBitmap(width, height, ~st.created_mask, st.polygons)

(* The sizes in skin_mask_info: a window and its shaded form. *)
MaskSizes == { [width |-> 275, height |-> 116], [width |-> 275, height |-> 16] }

(* A call of skin_create_transparent_mask. *)
skin_create_transparent_mask_call ==
    /\ color_last = NoColor
    /\ mask_last = NoMask
    /\ \E file \in RegionFiles, size \in MaskSizes :
           mask_last' = [op |-> "skin_create_transparent_mask", file |-> file,
                         width |-> size.width, height |-> size.height,
                         mask |-> skin_create_transparent_mask(file, size.width,
                                                               size.height)]
    /\ UNCHANGED color_last
    /\ SkinFilesOnly

(* The caller takes the mask. *)
mask_return ==
    /\ mask_last # NoMask
    /\ mask_last' = NoMask
    /\ UNCHANGED color_last
    /\ SkinFilesOnly

InitSkinFiles ==
    /\ color_last = NoColor
    /\ mask_last = NoMask

NextSkinFiles ==
    \/ skin_load_color_call
    \/ color_return
    \/ skin_create_transparent_mask_call
    \/ mask_return

-----------------------------------------------------------------------------
(* Specifications *)

Init ==
    /\ InitPlaylist
    /\ InitPlugins
    /\ InitOutput
    /\ InitSkin
    /\ InitSkinLock
    /\ InitSkinFiles

Next == NextPlaylist

Spec == Init /\ [][Next]_vars

SpecPlugins == Init /\ [][NextPlugins]_vars

SpecOutput == Init /\ [][NextOutputPlugin]_vars

SpecSkin == Init /\ [][NextSkin]_vars

SpecSkinLock == Init /\ [][NextSkinLock]_vars

SpecSkinFiles == Init /\ [][NextSkinFiles]_vars

-----------------------------------------------------------------------------
(* Properties of the playlist dispatch *)

(* The registered plugins naming the extension of the current filename. *)
Matching ==
    LET e == uri_get_extension(pl_filename)
    IN  { i \in 1..Len(plugins) : e.ok /\ e.ext \in plugins[i].exts }

LoadProviders == { i \in Matching : plugins[i].header /\ plugins[i].load }
SaveProviders == { i \in Matching : plugins[i].header /\ plugins[i].save }

CallsOf(fn) == { k \in 1..Len(pl_calls) : pl_calls[k].fn = fn }

(* C1: playlist_load offers the file only to plugins registered for the    *)
(* filename's extension, one at a time in registration order; nothing is   *)
(* called after the first load that returns success, and a plugin's load   *)
(* is called only after every earlier registered plugin that provides load *)
(* had its load called and failed.                                         *)
C1_LoadOrderStopsAtSuccess ==
    pl_op = "load" =>
        /\ \A k \in 1..Len(pl_seen) : pl_seen[k] \in Matching
        /\ \A k \in 1..Len(pl_seen), l \in 1..Len(pl_seen) :
               k < l => pl_seen[k] < pl_seen[l]
        /\ \A k \in CallsOf("load") :
               /\ pl_calls[k].plugin \in LoadProviders
               /\ pl_calls[k].ok => k = Len(pl_calls)
               /\ \A j \in LoadProviders :
                      j < pl_calls[k].plugin =>
                          \E h \in 1..(k - 1) : pl_calls[h] = Call(j, "load", FALSE)

(* A load failed, a later plugin's load succeeded, and a further plugin    *)
(* providing load for the extension was left untried.                      *)
C1_Witness ==
    /\ pl_op = "load"
    /\ \E k \in CallsOf("load"), l \in CallsOf("load") :
           /\ k < l /\ ~pl_calls[k].ok /\ pl_calls[l].ok
           /\ \E j \in LoadProviders : j > pl_calls[l].plugin

(* C2, as stated: when a plugin's save returns failure, the next           *)
(* registered plugin that provides save is tried.                          *)
C2_SaveTriesNextAfterFailure ==
    pl_op = "save" =>
        \A k \in CallsOf("save") :
            ~pl_calls[k].ok =>
                \A j \in SaveProviders :
                    j > pl_calls[k].plugin =>
                        \E h \in (k + 1)..Len(pl_calls) : pl_calls[h].plugin = j

(* C2, amended: aud_playlist_save walks the plugins registered for the     *)
(* extension in registration order, skips those without save, and stops at *)
(* the first plugin that provides save whatever its save returns: no later *)
(* plugin is tried after a failure, and the call returns TRUE exactly when *)
(* that first plugin saved the file.                                       *)
C2_SaveStopsAtFirstProvider ==
    pl_op = "save" =>
        IF SaveProviders = {}
        THEN /\ pl_seen = [k \in 1..Cardinality(Matching) |->
                              CHOOSE i \in Matching :
                                  Cardinality({j \in Matching : j < i}) = k - 1]
             /\ pl_calls = <<>>
             /\ ~pl_ret
        ELSE LET first == Min(SaveProviders) IN
             /\ pl_seen # <<>>
             /\ pl_seen[Len(pl_seen)] = first
             /\ \A k \in 1..Len(pl_seen), l \in 1..Len(pl_seen) :
                    k < l => pl_seen[k] < pl_seen[l]
             /\ \A k \in 1..Len(pl_calls) : pl_calls[k].plugin = first
             /\ pl_ret <=> (\E k \in CallsOf("save") : pl_calls[k].ok)

(* The first provider's save failed while a later plugin provides save. *)
C2_Witness ==
    /\ pl_op = "save"
    /\ \E k \in CallsOf("save") :
           /\ ~pl_calls[k].ok
           /\ \E j \in SaveProviders : j > pl_calls[k].plugin
    /\ ~pl_ret

(* C3: aud_filename_is_playlist returns TRUE exactly when the filename has *)
(* an extension and a playlist plugin is registered for it; it looks at    *)
(* the first such plugin only and neither opens the file nor calls load or *)
(* save.                                                                   *)
C3_IsPlaylistIffRegistered ==
    pl_op = "is_playlist" =>
        /\ pl_ret <=> (uri_get_extension(pl_filename).ok /\ Matching # {})
        /\ ~uri_get_extension(pl_filename).ok => ~pl_ret
        /\ pl_seen = IF Matching = {} THEN <<>> ELSE <<Min(Matching)>>
        /\ pl_calls = <<>>

(* TRUE was returned although the first matching plugin has no header and  *)
(* a second plugin matches too.                                            *)
C3_Witness ==
    /\ pl_op = "is_playlist"
    /\ pl_ret
    /\ Cardinality(Matching) >= 2
    /\ ~plugins[Min(Matching)].header

(* C4: playlist_load shows the "Cannot load" error exactly when no plugin  *)
(* providing load is registered for the filename's extension (no           *)
(* extension, no plugin, or only plugins without load) and then returns    *)
(* FALSE; once a provider was reached, a failed open or a failed load      *)
(* shows no such error.                                                    *)
C4_LoadErrorIffNoProvider ==
    pl_op = "load" =>
        /\ (pl_error = "Cannot load") <=> (LoadProviders = {})
        /\ pl_error = "Cannot load" => (~pl_ret /\ pl_calls = <<>>)
        /\ pl_calls # <<>> => pl_error = "none"
        /\ pl_error \in {"Cannot load", "none"}

(* A provider was reached, the file could not be opened, and no error was  *)
(* shown although FALSE is returned.                                       *)
C4_Witness ==
    /\ pl_op = "load"
    /\ pl_calls # <<>>
    /\ pl_calls[Len(pl_calls)] = Call(pl_calls[Len(pl_calls)].plugin, "fopen", FALSE)
    /\ ~pl_ret
    /\ pl_error = "none"

(* C5: aud_playlist_save returns TRUE exactly when a plugin's save was     *)
(* called and returned success; it shows the "Cannot save" error exactly   *)
(* when no plugin providing save is registered for the filename's          *)
(* extension, and then returns FALSE.                                      *)
C5_SaveResultAndError ==
    pl_op = "save" =>
        /\ pl_ret <=> (\E k \in CallsOf("save") : pl_calls[k].ok)
        /\ (pl_error = "Cannot save") <=> (SaveProviders = {})
        /\ pl_error = "Cannot save" => ~pl_ret
        /\ pl_error \in {"Cannot save", "none"}

(* The error was shown for a filename whose extension has registered       *)
(* plugins, none of which provides save.                                   *)
C5_Witness ==
    /\ pl_op = "save"
    /\ Matching # {}
    /\ pl_error = "Cannot save"
    /\ ~pl_ret

(* C11: during aud_playlist_save at most one plugin's save is called.  The *)
(* plugins tried before the one whose save was attempted provide no save   *)
(* and nothing was opened or called for them; the attempt is made on the   *)
(* first plugin that provides save, and it ends the dispatch whether the   *)
(* save succeeded or failed.                                               *)
C11_AtMostOneSaveCalled ==
    pl_op = "save" =>
        /\ Cardinality(CallsOf("save")) <= 1
        /\ Cardinality({ pl_calls[k].plugin : k \in 1..Len(pl_calls) }) <= 1
        /\ \A k \in 1..Len(pl_seen) :
               k < Len(pl_seen) =>
                   /\ pl_seen[k] \notin SaveProviders
                   /\ \A h \in 1..Len(pl_calls) : pl_calls[h].plugin # pl_seen[k]
        /\ \A k \in CallsOf("save") :
               /\ pl_calls[k].plugin = Min(SaveProviders)
               /\ k = Len(pl_calls)
               /\ pl_seen[Len(pl_seen)] = pl_calls[k].plugin

(* A plugin without save was skipped, the next plugin's save was called    *)
(* and succeeded, and a third plugin providing save was never tried.       *)
C11_Witness ==
    /\ pl_op = "save"
    /\ Len(pl_seen) = 2
    /\ ~plugins[pl_seen[1]].save
    /\ pl_calls = <<Call(pl_seen[2], "fopen", TRUE), Call(pl_seen[2], "save", TRUE)>>
    /\ \E j \in SaveProviders : j > pl_seen[2]

(* C12: when the playlist file cannot be opened for a plugin providing     *)
(* load (in playlist_load) or save (in aud_playlist_save), the dispatch    *)
(* stops there: that plugin's load or save is not called, no later plugin  *)
(* is tried, and the entry point returns FALSE.                            *)
C12_OpenFailureStopsDispatch ==
    pl_op \in {"load", "save"} =>
        \A k \in CallsOf("fopen") :
            ~pl_calls[k].ok =>
                /\ k = Len(pl_calls)
                /\ pl_seen[Len(pl_seen)] = pl_calls[k].plugin
                /\ \A h \in 1..Len(pl_calls) :
                       pl_calls[h].plugin = pl_calls[k].plugin => h = k
                /\ ~pl_ret

(* In playlist_load, one plugin's load failed, the file could not be       *)
(* opened for the next provider, and a further provider was left untried.  *)
C12_Witness ==
    /\ pl_op = "load"
    /\ Len(pl_calls) = 3
    /\ pl_calls[2].fn = "load" /\ ~pl_calls[2].ok
    /\ pl_calls[3].fn = "fopen" /\ ~pl_calls[3].ok
    /\ \E j \in LoadProviders : j > pl_calls[3].plugin
    /\ ~pl_ret

-----------------------------------------------------------------------------
(* Properties of the plugin header *)

(* C6: a plugin is loaded only if its header's version v satisfies         *)
(* _AUD_PLUGIN_VERSION_MIN <= v <= _AUD_PLUGIN_VERSION (older and newer    *)
(* ones are refused); the range is not empty, and a plugin built against   *)
(* this header (its magic and version) is always accepted.                 *)
C6_LoadedVersionInRange ==
    /\ _AUD_PLUGIN_VERSION_MIN <= _AUD_PLUGIN_VERSION
    /\ \A h \in pg_loaded :
           /\ h.version >= _AUD_PLUGIN_VERSION_MIN
           /\ h.version <= _AUD_PLUGIN_VERSION
    /\ pg_last.op = "load" =>
           /\ pg_last.header.version < _AUD_PLUGIN_VERSION_MIN
                  => ~pg_last.accepted
           /\ pg_last.header.version > _AUD_PLUGIN_VERSION
                  => ~pg_last.accepted
           /\ (\E t \in PluginTypes, o \in BOOLEAN :
                  pg_last.header = Plugin(t, o)) => pg_last.accepted

(* A plugin built against this header is loaded, and one marked with a     *)
(* newer version has just been refused.                                    *)
C6_Witness ==
    /\ \E t \in PluginTypes : Plugin(t, FALSE) \in pg_loaded
    /\ pg_last.op = "load"
    /\ pg_last.header.magic = _AUD_PLUGIN_MAGIC
    /\ pg_last.header.version > _AUD_PLUGIN_VERSION
    /\ ~pg_last.accepted

(* C7: a message sent to a plugin that does not override take_message      *)
(* yields -1, whatever its type and the message's code and size; 0 comes   *)
(* only from a plugin that overrides take_message.                         *)
C7_DefaultTakeMessage ==
    pg_last.op = "message" =>
        /\ ~pg_last.header.own_take_message => pg_last.result = -1
        /\ pg_last.result = 0 => pg_last.header.own_take_message

(* A message with data was sent to an output plugin without its own        *)
(* take_message and the sender got -1.                                     *)
C7_Witness ==
    /\ pg_last.op = "message"
    /\ pg_last.header.type = "PLUGIN_TYPE_OUTPUT"
    /\ ~pg_last.header.own_take_message
    /\ pg_last.size > 0
    /\ pg_last.result = -1

-----------------------------------------------------------------------------
(* Properties of the output plugin calls *)

(* C8: flush is called on an output plugin only after a successful         *)
(* open_audio and before the matching close_audio, and write_audio is      *)
(* never called while the stream is paused, that is after pause(true) and  *)
(* before pause(false).  Stated on steps: a step that calls flush or       *)
(* write_audio starts in a state where the stream is open, and for         *)
(* write_audio not paused.                                                 *)
C8_FlushAndWriteCallOrder ==
    [][ /\ (out_last' # out_last /\ out_last'.op = "flush") => out_open
        /\ (out_last' # out_last /\ out_last'.op = "write_audio")
               => (out_open /\ ~out_paused) ]_vars

(* The stream was paused and unpaused, and audio was written after that.   *)
C8_Witness ==
    /\ out_open
    /\ out_unpaused
    /\ ~out_paused
    /\ out_last.op = "write_audio"

-----------------------------------------------------------------------------
(* Properties of the skin loader *)

(* C9: init_skins first tries the configured skin and retries with         *)
(* BMP_DEFAULT_SKIN_PATH only if that load failed; it returns FALSE only   *)
(* when both loads failed and TRUE otherwise; the default skin is never    *)
(* tried after the configured one loaded; after a TRUE return the active   *)
(* skin's path is the path of the load that succeeded.                     *)
C9_InitSkinsFallback ==
    skin_last.op = "init_skins" =>
        LET a == skin_last.attempts IN
        /\ Len(a) \in {1, 2}
        /\ a[1].path = skin_last.path
        /\ (Len(a) = 2) <=> ~a[1].ok
        /\ Len(a) = 2 => a[2].path = BMP_DEFAULT_SKIN_PATH
        /\ ~skin_last.ret <=> (\A k \in 1..Len(a) : ~a[k].ok)
        /\ skin_last.ret => (a[Len(a)].ok /\ skin_path = a[Len(a)].path)

(* The configured skin was an archive that could not be extracted, the     *)
(* default skin loaded, and the active skin's path is the default path.    *)
C9_Witness ==
    /\ skin_last.op = "init_skins"
    /\ skin_last.path = "skin-a"
    /\ Len(skin_last.attempts) = 2
    /\ skin_last.attempts[1].file.archive
    /\ ~skin_last.attempts[1].file.extract
    /\ skin_last.ret
    /\ skin_path = BMP_DEFAULT_SKIN_PATH

(* The files of the load that the last entry point ended with. *)
LoadedFile == skin_last.attempts[Len(skin_last.attempts)].file

(* C10: after a skin has been loaded, every layout hint with a built-in    *)
(* default equals the integer value of its key in skin.hints when the key  *)
(* is present and the built-in default otherwise, also when the skin has   *)
(* no skin.hints file; the previously loaded skin has no influence.        *)
C10_HintsOrDefaults ==
    (skin_last.op # "none" /\ skin_last.ret) =>
        \A h \in SkinHints :
            skin_properties[h.prop] =
                IF LoadedFile.has_hints /\ h.key \in DOMAIN LoadedFile.hints
                THEN atoi(LoadedFile.hints[h.key])
                ELSE h.default

(* C13: bmp_active_skin_reload reloads the active skin from its current    *)
(* path: when that path still exists (and, for an archive, can still be    *)
(* extracted) the skin is read again, so the properties are what a load of *)
(* the files now at the path gives, and TRUE is returned.                  *)
C13_ReloadRereadsSkin ==
    ( /\ skin_last.op = "bmp_active_skin_reload"
      /\ LoadedFile.exists
      /\ LoadedFile.archive => LoadedFile.extract ) =>
        /\ skin_last.ret
        /\ skin_path = skin_last.path
        /\ skin_properties = skin_parse_hints(ZeroProperties, LoadedFile)

(* C14: skin_load_nolock is entered only by a thread that holds the skin's *)
(* lock, whether it comes from skin_load, skin_reload_forced or            *)
(* skin_reload; a thread that has returned from a skin function has        *)
(* released the lock as often as it took it, at most once, and does not    *)
(* hold it; and skin_unlock is reached only by the thread holding the      *)
(* lock.                                                                   *)
C14_LockDiscipline ==
    \A t \in Threads :
        /\ skin_thread[t].pc = "nolock" => REQUIRE_LOCK(t)
        /\ skin_thread[t].pc = "unlock" => skin_lock_owner = t
        /\ skin_thread[t].pc = "idle" =>
               /\ skin_lock_owner # t
               /\ skin_thread[t].unlocks = skin_thread[t].locks
               /\ skin_thread[t].locks <= 1
               /\ skin_thread[t].fn \in {"skin_reload_forced", "skin_free"}
                      => skin_thread[t].locks = 1

-----------------------------------------------------------------------------
(* Properties of the skin's colors and masks *)

(* The value skin_load_color works on: the key's value from the file when  *)
(* the file is found and has the key, else default_hex.                    *)
ColorSource ==
    IF color_last.file.exists /\ ColorKey \in DOMAIN color_last.file.hints
    THEN color_last.file.hints[ColorKey]
    ELSE color_last.default_hex

(* The stripped value after an optional leading '#'. *)
ColorDigits ==
    LET stripped == g_strstrip(ColorSource)
    IN  IF stripped # <<>> /\ stripped[1] = "#" THEN Tail(stripped) ELSE stripped

Pair(str, k) == hex_chars_to_int(str[2 * k - 1], str[2 * k])

(* C15: with n the length of the stripped value after an optional leading  *)
(* '#': n >= 6 gives red, green, blue from the pairs 1-2, 3-4, 5-6; n of 4 *)
(* or 5 gives red 0, green from pair 1-2, blue from pair 3-4; n of 2 or 3  *)
(* gives blue from pair 1-2 only; n < 2 gives all channels 0.  The value   *)
(* is the key's from the file when present, else default_hex, and NULL is  *)
(* returned exactly when there is neither.                                 *)
C15_IncompleteHexChannels ==
    color_last.op = "skin_load_color" =>
        IF ColorSource = NullString THEN color_last.color = NullColor
        ELSE LET p == ColorDigits
                 n == Len(p)
             IN  /\ color_last.color # NullColor
                 /\ n >= 6 =>
                        color_last.color = GdkColor(Pair(p, 1), Pair(p, 2), Pair(p, 3))
                 /\ n \in {4, 5} =>
                        color_last.color = GdkColor(0, Pair(p, 1), Pair(p, 2))
                 /\ n \in {2, 3} =>
                        color_last.color = GdkColor(0, 0, Pair(p, 1))
                 /\ n < 2 => color_last.color = GdkColor(0, 0, 0)

(* A five-character value from the file, over a complete default, gave a   *)
(* color without red whose green and blue differ.                          *)
C15_Witness ==
    /\ color_last.op = "skin_load_color"
    /\ color_last.file.exists
    /\ ColorKey \in DOMAIN color_last.file.hints
    /\ Len(color_last.default_hex) = 7
    /\ Len(ColorDigits) = 5
    /\ color_last.color # NullColor
    /\ color_last.color.red = 0
    /\ color_last.color.green = 241 * 256
    /\ color_last.color.blue = 31 * 256

(* The polygons of the mask that have at least one point. *)
DrawnPolygons ==
    { k \in 1..Len(mask_last.mask.polygons) : Len(mask_last.mask.polygons[k]) >= 1 }

(* C16: skin_create_transparent_mask returns a completely set mask when    *)
(* the path is NULL or the region file is not found; it returns NULL       *)
(* exactly when the file is found and its section lacks NumPoints or       *)
(* PointList; otherwise it returns a mask that the point list never leaves *)
(* entirely clear: when no polygon with at least one point was drawn, the  *)
(* whole width x height rectangle is set.                                  *)
C16_MaskNeverLeftClear ==
    mask_last.op = "skin_create_transparent_mask" =>
        LET file == mask_last.file
            mask == mask_last.mask
            lacks == {"NumPoints", "PointList"} \ DOMAIN file.arrays
        IN  IF file.path = NULL \/ ~file.exists
            THEN mask = GdkBitmap(mask_last.width, mask_last.height, TRUE, <<>>)
            ELSE IF lacks # {} THEN mask = NullMask
            ELSE /\ mask # NullMask
                 /\ mask.width = mask_last.width
                 /\ mask.height = mask_last.height
                 /\ DrawnPolygons = {} => mask.rectangle

=============================================================================
